---- MODULE Spec2Model ----
(***************************************************************************)
(* Model of the voice-controlled note-taking application (src/main.py):   *)
(* the SQLite note store (NoteDB), the editor state of VoiceNoteApp, and   *)
(* the background listener whose callback marshals transcribed text into   *)
(* the Tk main loop.                                                       *)
(*                                                                         *)
(* Text is modelled as a sequence of one-character strings so that strip,  *)
(* splitlines and slicing are computed character by character.             *)
(***************************************************************************)
EXTENDS Integers, Sequences, FiniteSets, TLC

\* ------------------------------------------------------------------------
\* Bounds of the model
\* ------------------------------------------------------------------------
\* the recording pipeline: phrases heard and recordings started
MaxSegments == 3
MaxSessions == 2
\* the record button: phrases heard
ToggleSegments == 2
\* typing while recording: phrases heard and texts typed
EditSegments == 2
MaxEdits == 2
\* a recording across notes: phrases heard
SwitchSegments == 2
\* dictating and saving: phrases heard, texts typed, saves
DictateSegments == 2
DictateEdits == 1
DictateSaves == 1
\* the editor and the store: texts typed, saves and seconds
NoteEdits == 2
MaxSaves == 3
MaxTime == 1
\* managing notes: texts typed and saves
ManageEdits == 1
ManageSaves == 2
\* stopping with transcriptions in flight: phrases heard
LiveSegments == 2
\* calls of NoteDB by a direct caller
MaxCalls == 3

\* ------------------------------------------------------------------------
\* Program constants
\* ------------------------------------------------------------------------
TitleMax == 60

None == 0

\* ------------------------------------------------------------------------
\* Text
\* ------------------------------------------------------------------------
SP == " "
NL == "\n"
hello == <<"h", "e", "l", "l", "o">>
world == <<"w", "o", "r", "l", "d">>
blank == <<" ">>
typedNL == <<"h", "i", "\n">>
old == <<"o", "l", "d">>
long ==
  <<"a", "b", "c", "d", "e", "f", "g", "h", "i", "j",
    "k", "l", "m", "n", "o", "p", "q", "r", "s", "t",
    "u", "v", "w", "x", "y", "z", "a", "b", "c", "d", "e", "f">>
\* two lines, the first of 65 characters
typedLong == long \o <<" ">> \o long \o <<"\n", "x">>

\* what the user says in the k-th phrase of a recording
Phrase(k) == IF k % 2 = 1 THEN hello ELSE world
\* the messages of the exceptions recognize_google can raise
ErrMsgs == {<<"x">>}
\* what the user can leave in the text widget by typing
EditTexts == {blank, typedNL, typedLong}
\* what the user can leave in the title entry by typing
TitleTexts == {<<>>, <<"T">>, blank}
\* what the user can leave in the search entry by typing
SearchTexts == {<<>>, <<" ", "h", "i">>, <<"_">>}
\* the notes a caller of NoteDB stores
StoreNotes ==
  {[title |-> old, content |-> hello, tags |-> <<>>],
   [title |-> <<"T">>, content |-> old, tags |-> <<"a", "_", "b">>],
   [title |-> <<>>, content |-> <<>>, tags |-> <<>>]}
\* the keywords a caller of NoteDB searches for
Keywords == {<<>>, <<"o">>, <<"l", "d">>, <<"t">>, <<"_">>, <<"%">>}

Min(a, b) == IF a < b THEN a ELSE b

\* str.isspace for the characters of the model
IsSpace(c) == c \in {" ", "\n", "\t"}

RECURSIVE LStrip(_)
LStrip(s) ==
  IF s = <<>> THEN <<>>
  ELSE IF IsSpace(Head(s)) THEN LStrip(Tail(s)) ELSE s

RECURSIVE RStrip(_)
RStrip(s) ==
  IF s = <<>> THEN <<>>
  ELSE IF IsSpace(s[Len(s)]) THEN RStrip(SubSeq(s, 1, Len(s) - 1)) ELSE s

\* str.strip()
Strip(s) == RStrip(LStrip(s))

RECURSIVE UpToNewline(_)
UpToNewline(s) ==
  IF s = <<>> THEN <<>>
  ELSE IF Head(s) = NL THEN <<>> ELSE <<Head(s)>> \o UpToNewline(Tail(s))

\* s.splitlines()[0] of a non-empty s
FirstLine(s) == UpToNewline(s)

\* s[:n]
Slice(s, n) == SubSeq(s, 1, Min(n, Len(s)))

\* tk.Text.get("1.0", tk.END): the widget's text and its final newline
TextGet(w) == w \o <<NL>>

\* f"[error: {e}]"
ErrorText(e) == <<"[", "e", "r", "r", "o", "r", ":", " ">> \o e \o <<"]">>

\* ------------------------------------------------------------------------
\* State
\* ------------------------------------------------------------------------
VARIABLES
  sr_available,     \* SR_AVAILABLE
  microphone,       \* self.microphone is not None
  listening,        \* self.listening
  stop_listening,   \* self.stop_listening: None or the session whose stopper it is
  threads,          \* the listener threads started by listen_in_background
  afterQueue,       \* callbacks queued in the Tk main loop by root.after(0, ...)
  content_text,     \* text of self.content_text, without the widget's final newline
  title_entry,      \* text of self.title_entry
  tags_entry,       \* text of self.tags_entry
  current_note_id,  \* self.current_note_id
  notes_map,        \* self.notes_map, one id per line of self.notes_list
  selection,        \* self.notes_list.curselection(): 0 or an index of notes_map
  rows,             \* table notes, in rowid order
  seq,              \* sqlite_sequence of table notes (AUTOINCREMENT)
  now,              \* datetime.datetime.now(), in seconds
  appended,         \* history: the fragments _append_text has inserted, in order
  outcome,          \* history: what recognize_google returned for each segment
  toggles,          \* history: what the last toggle_recording calls in a row did
  edit,             \* history: the current edit session
  dbop,             \* history: the last write by a direct caller of NoteDB
  fuel              \* what is left of the bounds

vars ==
  <<sr_available, microphone, listening, stop_listening, threads, afterQueue,
    content_text, title_entry, tags_entry, current_note_id, notes_map,
    selection, rows, seq, now, appended, outcome, toggles, edit, dbop, fuel>>

captureVars == <<listening, stop_listening, threads, afterQueue, outcome>>
editorVars == <<content_text, title_entry, tags_entry, current_note_id>>
listVars == <<notes_map, selection>>
storeVars == <<rows, seq, dbop>>
envVars == <<sr_available, microphone>>

Sessions == 1..MaxSessions

\* ------------------------------------------------------------------------
\* NoteDB
\* ------------------------------------------------------------------------
Row(id, title, content, tags, ts) ==
  [id |-> id, title |-> title, content |-> content, tags |-> tags,
   created_at |-> ts]

\* add_note binding content to both the content and the tags column
add_note_content_as_tags(rs, sq, title, content, tags, ts) ==
  <<Append(rs, Row(sq + 1, title, content, content, ts)), sq + 1>>

\* INSERT INTO notes ...; returns <<rows, lastrowid>>
add_note(rs, sq, title, content, tags, ts) ==
  <<Append(rs, Row(sq + 1, title, content, tags, ts)), sq + 1>>

\* update_note without WHERE id=?
update_note_no_where(rs, note_id, title, content, tags) ==
  [i \in DOMAIN rs |->
     [rs[i] EXCEPT !.title = title, !.content = content, !.tags = tags]]

\* UPDATE notes SET title=?, content=?, tags=? WHERE id=?
update_note(rs, note_id, title, content, tags) ==
  [i \in DOMAIN rs |->
     IF rs[i].id = note_id
     THEN [rs[i] EXCEPT !.title = title, !.content = content, !.tags = tags]
     ELSE rs[i]]

\* delete_note without WHERE id=?
db_delete_note_no_where(rs, note_id) == <<>>

\* DELETE FROM notes WHERE id=?
db_delete_note(rs, note_id) == SelectSeq(rs, LAMBDA r : r.id # note_id)

\* SELECT * FROM notes WHERE id=?: the rows fetchone chooses from
get_note_by_id(rs, note_id) == SelectSeq(rs, LAMBDA r : r.id = note_id)

RECURSIVE InsertDesc(_, _)
\* r into a sequence sorted by created_at descending, after its equals
InsertDesc(sorted, r) ==
  IF sorted = <<>> THEN <<r>>
  ELSE IF Head(sorted).created_at >= r.created_at
       THEN <<Head(sorted)>> \o InsertDesc(Tail(sorted), r)
       ELSE <<r>> \o sorted

RECURSIVE OrderByCreatedDesc(_)
\* ORDER BY created_at DESC over a scan in rowid order (SQLite's sorter keeps
\* rows of equal key in scan order)
OrderByCreatedDesc(rs) ==
  IF rs = <<>> THEN <<>>
  ELSE InsertDesc(OrderByCreatedDesc(SubSeq(rs, 1, Len(rs) - 1)), rs[Len(rs)])

\* SELECT * FROM notes ORDER BY created_at DESC
get_all_notes(rs) == OrderByCreatedDesc(rs)

\* the letters SQLite's LIKE folds
UpperCase ==
  <<"A", "B", "C", "D", "E", "F", "G", "H", "I", "J", "K", "L", "M",
    "N", "O", "P", "Q", "R", "S", "T", "U", "V", "W", "X", "Y", "Z">>

LowerCase ==
  <<"a", "b", "c", "d", "e", "f", "g", "h", "i", "j", "k", "l", "m",
    "n", "o", "p", "q", "r", "s", "t", "u", "v", "w", "x", "y", "z">>

Lower(c) ==
  IF \E i \in DOMAIN UpperCase : UpperCase[i] = c
  THEN LowerCase[CHOOSE i \in DOMAIN UpperCase : UpperCase[i] = c]
  ELSE c

RECURSIVE LikeEnds(_, _, _)
\* the positions of text at which a match of pattern can end when it starts
\* at one of the positions starts: "%" matches any run of characters, "_"
\* any one character, any other character itself, letters without regard to
\* case
LikeEnds(pattern, text, starts) ==
  IF pattern = <<>> THEN starts
  ELSE LET c == Head(pattern)
           next ==
             IF c = "%"
             THEN {j \in 0..Len(text) : \E i \in starts : i <= j}
             ELSE IF c = "_"
             THEN {i + 1 : i \in {k \in starts : k < Len(text)}}
             ELSE {i + 1 : i \in {k \in starts :
                     k < Len(text) /\ Lower(text[k + 1]) = Lower(c)}}
       IN LikeEnds(Tail(pattern), text, next)

\* text LIKE pattern
Like(pattern, text) == Len(text) \in LikeEnds(pattern, text, {0})

\* search_notes without ORDER BY created_at DESC
db_search_notes_unordered(rs, keyword) ==
  LET kw == <<"%">> \o keyword \o <<"%">> IN
  SelectSeq(rs, LAMBDA r :
    Like(kw, r.title) \/ Like(kw, r.content) \/ Like(kw, r.tags))

\* SELECT * FROM notes WHERE title LIKE ? OR content LIKE ? OR tags LIKE ?
\* ORDER BY created_at DESC, with kw = f"%{keyword}%"
db_search_notes(rs, keyword) ==
  LET kw == <<"%">> \o keyword \o <<"%">> IN
  OrderByCreatedDesc(SelectSeq(rs, LAMBDA r :
    Like(kw, r.title) \/ Like(kw, r.content) \/ Like(kw, r.tags)))

\* history: a direct caller of NoteDB wrote to table notes
Call(op, id, title, content, tags) ==
  [op |-> op, id |-> id, title |-> title, content |-> content, tags |-> tags,
   n |-> dbop.n + 1]

\* ------------------------------------------------------------------------
\* VoiceNoteApp: list and editor
\* ------------------------------------------------------------------------
\* load_notes(notes): the ids of the listbox lines
load_notes_of(notes) == [i \in DOMAIN notes |-> notes[i].id]

\* load_notes(): the ids of the listbox lines
load_notes(rs) == [i \in DOMAIN get_all_notes(rs) |-> get_all_notes(rs)[i].id]

\* the history of an edit session that starts on buffer of note id (or None)
NewEdit(id, rs) ==
  [new |-> id = None, base |-> Len(rs), saves |-> 0, id |-> id,
   rejected |-> FALSE]

\* history: toggle_recording ran and did op, after at most one other toggle
Toggled(op) ==
  toggles' = IF toggles = <<>> THEN <<op>> ELSE <<toggles[Len(toggles)], op>>

\* history: the user did something else than toggle_recording
Other == toggles' = <<>>

\* session s has a fragment waiting in the Tk main loop
Queued(s) == \E i \in DOMAIN afterQueue : afterQueue[i].seg[1] = s

\* session s can still deliver a fragment
Delivering(s) == threads[s].pc \notin {"none", "done"} \/ Queued(s)

\* history: the editor left the buffer the delivering sessions started on
Switched ==
  [s \in Sessions |->
     IF Delivering(s) THEN [threads[s] EXCEPT !.switched = TRUE] ELSE threads[s]]

\* on_select_note with the listbox line idx selected
on_select_note ==
  \E idx \in DOMAIN notes_map :
    LET found == get_note_by_id(rows, notes_map[idx]) IN
    /\ selection' = idx
    /\ IF found # <<>>
       THEN /\ current_note_id' = found[1].id
            /\ title_entry' = found[1].title
            /\ tags_entry' = found[1].tags
            /\ content_text' = found[1].content
            /\ edit' = NewEdit(found[1].id, rows)
            /\ threads' = Switched
       ELSE UNCHANGED <<editorVars, edit, threads>>
    /\ Other
    /\ UNCHANGED <<envVars, listening, stop_listening, afterQueue, outcome,
                   notes_map, storeVars, now, appended, fuel>>

\* new_note
new_note ==
  /\ current_note_id' = None
  /\ title_entry' = <<>>
  /\ tags_entry' = <<>>
  /\ content_text' = <<>>
  /\ edit' = NewEdit(None, rows)
  /\ threads' = Switched
  /\ Other
  /\ UNCHANGED <<envVars, listening, stop_listening, afterQueue, outcome,
                 listVars, storeVars, now, appended, fuel>>

\* the title of save_note without the slice [:60]
SaveTitle_untruncated(title, content) ==
  IF title = <<>>
  THEN (IF Strip(content) # <<>>
        THEN FirstLine(Strip(content))
        ELSE <<"(", "n", "o", " ", "t", "i", "t", "l", "e", ")">>)
  ELSE title

\* the title save_note stores for a stripped title and stripped content
SaveTitle(title, content) ==
  IF title = <<>>
  THEN (IF Strip(content) # <<>>
        THEN Slice(FirstLine(Strip(content)), TitleMax)
        ELSE <<"(", "n", "o", " ", "t", "i", "t", "l", "e", ")">>)
  ELSE title

\* save_note without "self.current_note_id = nid"
save_note_forgets_id ==
  LET title == Strip(title_entry)
      tags == Strip(tags_entry)
      content == Strip(TextGet(content_text))
  IN
  IF content = <<>>
  THEN /\ edit' = [edit EXCEPT !.rejected = TRUE]
       /\ Other
       /\ UNCHANGED <<envVars, captureVars, editorVars, listVars, storeVars,
                      now, appended, fuel>>
  ELSE
    /\ fuel.saves > 0
    /\ fuel' = [fuel EXCEPT !.saves = @ - 1]
    /\ IF current_note_id = None
       THEN LET added == add_note(rows, seq, SaveTitle(title, content),
                                  content, tags, now) IN
            /\ rows' = added[1]
            /\ seq' = added[2]
            /\ UNCHANGED dbop
            /\ current_note_id' = current_note_id
            /\ Other
       ELSE /\ rows' = update_note(rows, current_note_id,
                                   SaveTitle(title, content), content, tags)
            /\ UNCHANGED dbop
            /\ UNCHANGED <<seq, current_note_id>>
            /\ Other
    /\ edit' = [edit EXCEPT !.saves = @ + 1,
                            !.id = IF edit.saves = 0 THEN current_note_id' ELSE @]
    /\ notes_map' = load_notes(rows')
    /\ selection' = 0
    /\ UNCHANGED <<envVars, captureVars, content_text, title_entry,
                   tags_entry, now, appended>>

\* save_note without the check "if not content"
save_note_saves_blank ==
  LET title == Strip(title_entry)
      tags == Strip(tags_entry)
      content == Strip(TextGet(content_text))
  IN
    /\ fuel.saves > 0
    /\ fuel' = [fuel EXCEPT !.saves = @ - 1]
    /\ IF current_note_id = None
       THEN LET added == add_note(rows, seq, SaveTitle(title, content),
                                  content, tags, now) IN
            /\ rows' = added[1]
            /\ seq' = added[2]
            /\ UNCHANGED dbop
            /\ current_note_id' = added[2]
            /\ Other
       ELSE /\ rows' = update_note(rows, current_note_id,
                                   SaveTitle(title, content), content, tags)
            /\ UNCHANGED dbop
            /\ UNCHANGED <<seq, current_note_id>>
            /\ Other
    /\ edit' = [edit EXCEPT !.saves = @ + 1,
                            !.id = IF edit.saves = 0 THEN current_note_id' ELSE @]
    /\ notes_map' = load_notes(rows')
    /\ selection' = 0
    /\ UNCHANGED <<envVars, captureVars, content_text, title_entry,
                   tags_entry, now, appended>>

\* save_note
save_note ==
  LET title == Strip(title_entry)
      tags == Strip(tags_entry)
      content == Strip(TextGet(content_text))
  IN
  IF content = <<>>
  THEN /\ edit' = [edit EXCEPT !.rejected = TRUE]
       /\ Other
       /\ UNCHANGED <<envVars, captureVars, editorVars, listVars, storeVars,
                      now, appended, fuel>>
  ELSE
    /\ fuel.saves > 0
    /\ fuel' = [fuel EXCEPT !.saves = @ - 1]
    /\ IF current_note_id = None
       THEN LET added == add_note(rows, seq, SaveTitle(title, content),
                                  content, tags, now) IN
            /\ rows' = added[1]
            /\ seq' = added[2]
            /\ UNCHANGED dbop
            /\ current_note_id' = added[2]
            /\ Other
       ELSE /\ rows' = update_note(rows, current_note_id,
                                   SaveTitle(title, content), content, tags)
            /\ UNCHANGED dbop
            /\ UNCHANGED <<seq, current_note_id>>
            /\ Other
    /\ edit' = [edit EXCEPT !.saves = @ + 1,
                            !.id = IF edit.saves = 0 THEN current_note_id' ELSE @]
    /\ notes_map' = load_notes(rows')
    /\ selection' = 0
    /\ UNCHANGED <<envVars, captureVars, content_text, title_entry,
                   tags_entry, now, appended>>

\* the user types in the text widget
type_content ==
  /\ fuel.edits > 0
  /\ fuel' = [fuel EXCEPT !.edits = @ - 1]
  /\ \E t \in EditTexts : content_text' = t
  /\ edit' = [edit EXCEPT !.rejected = FALSE]
  /\ Other
  /\ UNCHANGED <<envVars, captureVars, title_entry, tags_entry,
                 current_note_id, listVars, storeVars, now, appended>>

\* the user types in the title entry
type_title ==
  /\ fuel.titles > 0
  /\ fuel' = [fuel EXCEPT !.titles = @ - 1]
  /\ \E t \in TitleTexts \ {title_entry} : title_entry' = t
  /\ Other
  /\ UNCHANGED <<envVars, captureVars, content_text, tags_entry,
                 current_note_id, listVars, storeVars, now, appended, edit>>

\* a second passes on the clock add_note reads
Tick ==
  /\ now < MaxTime
  /\ now' = now + 1
  /\ UNCHANGED <<envVars, captureVars, editorVars, listVars, storeVars,
                 appended, toggles, edit, fuel>>

\* delete_note without the final self.new_note()
delete_note_keeps_editor ==
  /\ selection # 0
  /\ \E yes \in BOOLEAN :
       IF ~yes
       THEN UNCHANGED <<editorVars, listVars, storeVars, threads, edit>>
       ELSE /\ rows' = db_delete_note(rows, notes_map[selection])
            /\ UNCHANGED <<seq, dbop>>
            /\ notes_map' = load_notes(rows')
            /\ selection' = 0
            /\ UNCHANGED <<editorVars, threads, edit>>
  /\ Other
  /\ UNCHANGED <<envVars, listening, stop_listening, afterQueue, outcome, now,
                 appended, fuel>>

\* delete_note with a listbox line selected; yes is the answer to askyesno
delete_note ==
  /\ selection # 0
  /\ \E yes \in BOOLEAN :
       IF ~yes
       THEN UNCHANGED <<editorVars, listVars, storeVars, threads, edit>>
       ELSE /\ rows' = db_delete_note(rows, notes_map[selection])
            /\ UNCHANGED <<seq, dbop>>
            /\ notes_map' = load_notes(rows')
            /\ selection' = 0
            /\ current_note_id' = None
            /\ title_entry' = <<>>
            /\ tags_entry' = <<>>
            /\ content_text' = <<>>
            /\ edit' = NewEdit(None, rows')
            /\ threads' = Switched
  /\ Other
  /\ UNCHANGED <<envVars, listening, stop_listening, afterQueue, outcome, now,
                 appended, fuel>>

\* search_notes with the text typed in search_entry
search_notes ==
  /\ \E typed \in SearchTexts :
       LET q == Strip(typed) IN
       notes_map' = IF q = <<>> THEN load_notes(rows)
                    ELSE load_notes_of(db_search_notes(rows, q))
  /\ selection' = 0
  /\ Other
  /\ UNCHANGED <<envVars, captureVars, editorVars, storeVars, now, appended,
                 edit, fuel>>

\* a caller of NoteDB.add_note
call_add_note ==
  /\ dbop.n < MaxCalls
  /\ \E note \in StoreNotes :
       LET added == add_note(rows, seq, note.title, note.content, note.tags,
                             now) IN
       /\ rows' = added[1]
       /\ seq' = added[2]
       /\ dbop' = Call("add", added[2], note.title, note.content, note.tags)
  /\ UNCHANGED <<envVars, captureVars, editorVars, listVars, now, appended,
                 toggles, edit, fuel>>

\* a caller of NoteDB.update_note
call_update_note ==
  /\ dbop.n < MaxCalls
  /\ \E note_id \in 1..(seq + 1), note \in StoreNotes :
       /\ rows' = update_note(rows, note_id, note.title, note.content,
                              note.tags)
       /\ dbop' = Call("update", note_id, note.title, note.content, note.tags)
  /\ UNCHANGED <<envVars, captureVars, editorVars, listVars, seq, now,
                 appended, toggles, edit, fuel>>

\* a caller of NoteDB.delete_note
call_delete_note ==
  /\ dbop.n < MaxCalls
  /\ \E note_id \in 1..(seq + 1) :
       /\ rows' = db_delete_note(rows, note_id)
       /\ dbop' = Call("delete", note_id, <<>>, <<>>, <<>>)
  /\ UNCHANGED <<envVars, captureVars, editorVars, listVars, seq, now,
                 appended, toggles, edit, fuel>>

\* ------------------------------------------------------------------------
\* VoiceNoteApp: recording
\* ------------------------------------------------------------------------
\* The listener of a recording is the thread that SpeechRecognition's
\* listen_in_background starts (line 237): it enters the microphone's context,
\* then, while running[0], listens for a phrase and calls _callback with it
\* in the same thread, one phrase at a time.
NoThread == [pc |-> "none", running |-> FALSE, captured |-> 0, switched |-> FALSE]

\* the sessions listen_in_background has not started yet
Unused == {s \in Sessions : threads[s].pc = "none"}

\* Recognizer.listen_in_background: starts the listener thread of session s
\* with running = [True]; the stopper it returns is the handle s
listen_in_background(s) ==
  [threads EXCEPT ![s] = [pc |-> "enter", running |-> TRUE, captured |-> 0,
                          switched |-> FALSE]]

\* the stopper listen_in_background returned for session s, called with
\* wait_for_stop=False: running[0] = False, and no join of the thread
stopper(s) == [threads EXCEPT ![s].running = FALSE]

\* toggle_recording without SpeechRecognition or without a microphone
toggle_unavailable ==
  /\ ~sr_available \/ ~microphone
  /\ Toggled(IF ~sr_available THEN "no_sr" ELSE "no_mic")
  /\ UNCHANGED <<envVars, captureVars, editorVars, listVars, storeVars, now,
                 appended, edit, fuel>>

\* toggle_recording when not listening: listen_in_background returns
toggle_start ==
  /\ sr_available /\ microphone
  /\ ~listening
  /\ Unused # {}
  /\ fuel.starts > 0
  /\ fuel' = [fuel EXCEPT !.starts = @ - 1]
  /\ LET s == CHOOSE u \in Unused : \A v \in Unused : u <= v IN
     /\ threads' = listen_in_background(s)
     /\ stop_listening' = s
  /\ listening' = TRUE
  /\ Toggled("start_ok")
  /\ UNCHANGED <<envVars, afterQueue, outcome, editorVars, listVars, storeVars,
                 now, appended, edit>>

\* toggle_recording when not listening, with "self.listening = True" moved
\* before the call of listen_in_background, which raises
toggle_start_raises_late ==
  /\ sr_available /\ microphone
  /\ ~listening
  /\ listening' = TRUE
  /\ Toggled("start_err")
  /\ UNCHANGED <<envVars, stop_listening, threads, afterQueue, outcome,
                 editorVars, listVars, storeVars, now, appended, edit, fuel>>

\* toggle_recording when not listening: listen_in_background raises
toggle_start_raises ==
  /\ sr_available /\ microphone
  /\ ~listening
  /\ Toggled("start_err")
  /\ UNCHANGED <<envVars, captureVars, editorVars, listVars, storeVars, now,
                 appended, edit, fuel>>

\* toggle_recording when listening, without "self.listening = False"
toggle_stop_keeps_listening ==
  /\ sr_available /\ microphone
  /\ listening
  /\ threads' = IF stop_listening # None THEN stopper(stop_listening)
                ELSE threads
  /\ stop_listening' = None
  /\ listening' = listening
  /\ Toggled("stop")
  /\ UNCHANGED <<envVars, afterQueue, outcome, editorVars, listVars, storeVars,
                 now, appended, edit, fuel>>

\* toggle_recording when listening, without the call of self.stop_listening
toggle_stop_no_call ==
  /\ sr_available /\ microphone
  /\ listening
  /\ stop_listening' = None
  /\ listening' = FALSE
  /\ Toggled("stop")
  /\ UNCHANGED <<envVars, threads, afterQueue, outcome, editorVars, listVars,
                 storeVars, now, appended, edit, fuel>>

\* toggle_recording when listening. The stopper only clears running[0] and,
\* called with wait_for_stop=False, joins nothing, so it does not raise and
\* the except branch of lines 249-253 is not taken.
toggle_stop ==
  /\ sr_available /\ microphone
  /\ listening
  /\ threads' = IF stop_listening # None THEN stopper(stop_listening)
                ELSE threads
  /\ stop_listening' = None
  /\ listening' = FALSE
  /\ Toggled("stop")
  /\ UNCHANGED <<envVars, afterQueue, outcome, editorVars, listVars, storeVars,
                 now, appended, edit, fuel>>

toggle_recording ==
  \/ toggle_unavailable
  \/ toggle_start
  \/ toggle_start_raises
  \/ toggle_stop

\* the microphone is inside the context manager of a listener thread
InContext == \E s \in Sessions : threads[s].pc \in {"listen", "callback"}

bgUnchanged ==
  UNCHANGED <<envVars, listening, stop_listening, editorVars, listVars,
              storeVars, now, appended, toggles, edit>>

\* threaded_listen: "with source as s", which asserts that the microphone is
\* not already inside a context manager
threaded_enter(s) ==
  /\ threads[s].pc = "enter"
  /\ threads' = [threads EXCEPT ![s].pc = IF InContext THEN "done" ELSE "listen"]
  /\ UNCHANGED <<afterQueue, outcome, fuel>>
  /\ bgUnchanged

\* threaded_listen: listen(s, 1, ...) times out and the loop reads running[0]
threaded_timeout(s) ==
  /\ threads[s].pc = "listen"
  /\ ~threads[s].running
  /\ threads' = [threads EXCEPT ![s].pc = "done"]
  /\ UNCHANGED <<afterQueue, outcome, fuel>>
  /\ bgUnchanged

\* threaded_listen: listen(s, 1, ...) returns the next phrase, then
\* "if running[0]: callback(self, audio)"; the callback begins with the call
\* of recognize_google, and a phrase that finds running[0] false is dropped
threaded_phrase(s) ==
  /\ threads[s].pc = "listen"
  /\ fuel.segs > 0
  /\ fuel' = [fuel EXCEPT !.segs = @ - 1]
  /\ threads' = [threads EXCEPT
                   ![s].pc = IF threads[s].running THEN "callback" ELSE "done",
                   ![s].captured = @ + 1]
  /\ outcome' = IF threads[s].running THEN outcome
                ELSE (<<s, threads[s].captured + 1>> :> "dropped") @@ outcome
  /\ UNCHANGED afterQueue
  /\ bgUnchanged

\* root.after(0, cb) if the main loop ran the newest callback first
after_lifo(queue, cb) == <<cb>> \o queue

\* root.after(0, cb): cb joins the callbacks due now, behind the earlier ones
after(queue, cb) == Append(queue, cb)

\* _callback without its "except sr.UnknownValueError" clause
CallbackText_generic(result) ==
  IF result.kind = "text" THEN result.text ELSE ErrorText(result.text)

\* the text _callback has after recognize_google returned or raised
CallbackText(result) ==
  IF result.kind = "text" THEN result.text
  ELSE IF result.kind = "empty" THEN <<>>
  ELSE ErrorText(result.text)

\* what recognize_google can do with the k-th phrase: return its words, raise
\* UnknownValueError, or raise another exception
Results(k) ==
  [kind : {"text"}, text : {Phrase(k)}] \cup [kind : {"empty"}, text : {<<>>}]
    \cup [kind : {"error"}, text : ErrMsgs]

\* _callback with "if text and self.listening" before root.after
_callback_while_listening(s) ==
  /\ threads[s].pc = "callback"
  /\ \E result \in Results(threads[s].captured) :
       LET text == CallbackText(result)
           seg == <<s, threads[s].captured>>
       IN
       /\ outcome' = (seg :> result.kind) @@ outcome
       /\ afterQueue' = IF text # <<>> /\ listening
                        THEN after(afterQueue, [text |-> text, seg |-> seg])
                        ELSE afterQueue
  /\ threads' = [threads EXCEPT
                   ![s].pc = IF threads[s].running THEN "listen" ELSE "done"]
  /\ UNCHANGED fuel
  /\ bgUnchanged

\* _callback: recognize_google returns or raises, the text is queued for the
\* main loop, and threaded_listen reads running[0] again
_callback(s) ==
  /\ threads[s].pc = "callback"
  /\ \E result \in Results(threads[s].captured) :
       LET text == CallbackText(result)
           seg == <<s, threads[s].captured>>
       IN
       /\ outcome' = (seg :> result.kind) @@ outcome
       /\ afterQueue' = IF text # <<>>
                        THEN after(afterQueue, [text |-> text, seg |-> seg])
                        ELSE afterQueue
  /\ threads' = [threads EXCEPT
                   ![s].pc = IF threads[s].running THEN "listen" ELSE "done"]
  /\ UNCHANGED fuel
  /\ bgUnchanged

\* _append_text inserting at "1.0" instead of tk.END
AppendFragment_front(cur, text) ==
  IF Strip(TextGet(cur)) # <<>> THEN text \o <<SP>> \o cur ELSE text \o cur

\* _append_text with insert(tk.END, text) in both branches
AppendFragment_no_space(cur, text) ==
  IF Strip(TextGet(cur)) # <<>> THEN cur \o text ELSE cur \o text

\* _append_text(text) on the widget text cur
AppendFragment(cur, text) ==
  IF Strip(TextGet(cur)) # <<>> THEN cur \o <<SP>> \o text ELSE cur \o text

\* the main loop runs the next callback queued by root.after: _append_text
_append_text ==
  /\ afterQueue # <<>>
  /\ LET cb == Head(afterQueue) IN
     /\ content_text' = AppendFragment(content_text, cb.text)
     /\ appended' = Append(appended,
          [seg |-> cb.seg, text |-> cb.text,
           stopped |-> ~threads[cb.seg[1]].running,
           switched |-> threads[cb.seg[1]].switched])
  /\ afterQueue' = Tail(afterQueue)
  /\ UNCHANGED <<envVars, listening, stop_listening, threads, outcome,
                 title_entry, tags_entry, current_note_id, listVars, storeVars,
                 now, toggles, edit, fuel>>

\* ------------------------------------------------------------------------
\* Specification
\* ------------------------------------------------------------------------
\* notes.db as an earlier run of the application can have left it
InitStores == {<<>>, <<Row(1, old, old, <<>>, 0)>>}

InitWith(srs, stores, f) ==
  /\ sr_available \in srs
  /\ microphone \in (IF sr_available THEN srs ELSE {FALSE})
  /\ listening = FALSE
  /\ stop_listening = None
  /\ threads = [s \in Sessions |-> NoThread]
  /\ afterQueue = <<>>
  /\ content_text = <<>>
  /\ title_entry = <<>>
  /\ tags_entry = <<>>
  /\ current_note_id = None
  /\ rows \in stores
  /\ seq = Len(rows)
  /\ notes_map = load_notes(rows)
  /\ selection = 0
  /\ now = 0
  /\ appended = <<>>
  /\ outcome = <<>>
  /\ toggles = <<>>
  /\ edit = NewEdit(None, rows)
  /\ dbop = [op |-> "none", id |-> None, title |-> <<>>, content |-> <<>>,
             tags |-> <<>>, n |-> 0]
  /\ fuel = f

Listener == \E s \in Sessions :
  \/ threaded_enter(s)
  \/ threaded_timeout(s)
  \/ threaded_phrase(s)
  \/ _callback(s)

Fuel(segs, starts, edits, titles, saves) ==
  [segs |-> segs, starts |-> starts, edits |-> edits, titles |-> titles,
   saves |-> saves]

\* the recording pipeline
Init ==
  InitWith({TRUE}, InitStores \ {<<>>}, Fuel(MaxSegments, MaxSessions, 0, 0, 0))

Next ==
  \/ toggle_start
  \/ toggle_stop
  \/ Listener
  \/ _append_text

Spec == Init /\ [][Next]_vars

\* the record button, with and without SpeechRecognition and a microphone
InitToggle ==
  InitWith(BOOLEAN, InitStores \ {<<>>},
           Fuel(ToggleSegments, MaxSessions, 0, 0, 0))

NextToggle ==
  \/ toggle_recording
  \/ Listener
  \/ _append_text

SpecToggle == InitToggle /\ [][NextToggle]_vars

\* one recording while the user types in the buffer
InitEdit ==
  InitWith({TRUE}, InitStores \ {<<>>}, Fuel(EditSegments, 1, MaxEdits, 0, 0))

NextEdit ==
  \/ toggle_start
  \/ \E s \in Sessions : threaded_enter(s) \/ threaded_phrase(s) \/ _callback(s)
  \/ _append_text
  \/ type_content

SpecEdit == InitEdit /\ [][NextEdit]_vars

\* one recording while the user moves between notes
InitSwitch ==
  InitWith({TRUE}, InitStores \ {<<>>}, Fuel(SwitchSegments, 1, 0, 0, 0))

NextSwitch ==
  \/ toggle_start
  \/ toggle_stop
  \/ Listener
  \/ _append_text
  \/ new_note
  \/ on_select_note

SpecSwitch == InitSwitch /\ [][NextSwitch]_vars

\* one recording, typing, and saving the buffer
InitDictate ==
  InitWith({TRUE}, {<<>>},
           Fuel(DictateSegments, 1, DictateEdits, 1, DictateSaves))

NextDictate ==
  \/ toggle_start
  \/ \E s \in Sessions : threaded_enter(s) \/ threaded_phrase(s) \/ _callback(s)
  \/ _append_text
  \/ type_content
  \/ type_title
  \/ save_note

SpecDictate == InitDictate /\ [][NextDictate]_vars

\* the editor and the store
InitNotes == InitWith({TRUE}, InitStores, Fuel(0, 0, NoteEdits, 1, MaxSaves))

NextNotes ==
  \/ type_content
  \/ type_title
  \/ new_note
  \/ on_select_note
  \/ save_note
  \/ Tick

SpecNotes == InitNotes /\ [][NextNotes]_vars

\* one recording that is stopped, with a main loop that keeps running
InitLive ==
  InitWith({TRUE}, InitStores \ {<<>>}, Fuel(LiveSegments, 1, 0, 0, 0))

NextLive ==
  \/ toggle_start
  \/ toggle_stop
  \/ Listener
  \/ _append_text

\* root.mainloop() runs every callback that root.after(0, ...) has queued
SpecLive == InitLive /\ [][NextLive]_vars /\ WF_vars(_append_text)

\* saving, selecting, deleting and searching notes
InitManage ==
  InitWith({TRUE}, InitStores, Fuel(0, 0, ManageEdits, 0, ManageSaves))

NextManage ==
  \/ type_content
  \/ new_note
  \/ on_select_note
  \/ save_note
  \/ delete_note
  \/ search_notes

SpecManage == InitManage /\ [][NextManage]_vars

\* NoteDB on its own
InitStore == InitWith({TRUE}, InitStores, Fuel(0, 0, 0, 0, 0))

NextStore ==
  \/ call_add_note
  \/ call_update_note
  \/ call_delete_note
  \/ Tick

SpecStore == InitStore /\ [][NextStore]_vars

\* ------------------------------------------------------------------------
\* Properties
\* ------------------------------------------------------------------------
Last(q) == q[Len(q)]

\* the listener threads that have started and not ended
Alive == {s \in Sessions : threads[s].pc \notin {"none", "done"}}

RECURSIVE SpaceJoin(_)
\* the texts of a log, separated by single spaces
SpaceJoin(log) ==
  IF log = <<>> THEN <<>>
  ELSE IF Len(log) = 1 THEN log[1].text
  ELSE SpaceJoin(SubSeq(log, 1, Len(log) - 1)) \o <<SP>> \o Last(log).text

\* C1: within one recording session, fragments are appended to the buffer in
\* the order their segments were captured.
C1_CaptureOrder ==
  \A i, j \in DOMAIN appended :
    (i < j /\ appended[i].seg[1] = appended[j].seg[1])
      => appended[i].seg[2] < appended[j].seg[2]

\* C1 witness: the three segments of one session have been appended.
C1_Witness ==
  /\ Len(appended) = 3
  /\ \A k \in 1..3 : appended[k].seg = <<1, k>>

\* C2 as claimed: only segments that were recognised as text reach the buffer.
C2_OnlyRecognisedText ==
  \A i \in DOMAIN appended : outcome[appended[i].seg] = "text"

\* C2 amended: a segment without recognised speech contributes nothing; a
\* segment whose transcription raised contributes the marker "[error: ...]"
\* in its place, and a recognised segment contributes its words; the buffer
\* reads these fragments separated by single spaces.
C2_EmptyContributesNothing ==
  /\ \A i \in DOMAIN appended :
       LET e == appended[i] IN
       /\ outcome[e.seg] \in {"text", "error"}
       /\ outcome[e.seg] = "text" => e.text = Phrase(e.seg[2])
       /\ outcome[e.seg] = "error" => \E m \in ErrMsgs : e.text = ErrorText(m)
  /\ \A i \in DOMAIN afterQueue : outcome[afterQueue[i].seg] \in {"text", "error"}
  /\ content_text = SpaceJoin(appended)

\* C2 witness: segments 1, 2, 3 with an error on segment 2: the buffer reads
\* fragment 1, the error marker, fragment 3.
C2_Witness ==
  /\ Len(appended) = 3
  /\ \A k \in 1..3 : appended[k].seg = <<1, k>>
  /\ outcome[<<1, 1>>] = "text" /\ outcome[<<1, 2>>] = "error"
  /\ outcome[<<1, 3>>] = "text"
  /\ content_text = hello \o <<SP>> \o ErrorText(<<"x">>) \o <<SP>> \o hello

\* C3: every step that changes the buffer applies one whole mutation to the
\* whole previous buffer: the text the user typed, or the previous buffer
\* followed by one queued fragment; no step mixes the two.
C3_SerializedMutations ==
  [][\/ content_text' = content_text
     \/ content_text' \in EditTexts
     \/ /\ afterQueue # <<>>
        /\ content_text' \in {content_text \o Head(afterQueue).text,
                              content_text \o <<SP>> \o Head(afterQueue).text}]_vars

\* C3 witness: the user typed while a transcription was in flight, and the
\* fragment was appended to what the user typed.
C3_Witness ==
  /\ fuel.edits < MaxEdits
  /\ Len(appended) = 1
  /\ content_text = typedNL \o <<SP>> \o hello

C6_BoundBuffer ==
  \A i \in DOMAIN appended : ~appended[i].switched

\* C7: there is no live listener thread when listening is false and exactly
\* one when listening is true.
C7_OneListener ==
  Cardinality(Alive) = IF listening THEN 1 ELSE 0

SavedRow == get_note_by_id(rows, current_note_id)[1]

\* C9 as claimed: a save with an empty title stores the first line of the
\* buffer, cut to 60 characters, as title and the buffer as content.
C9_SavesSnapshot ==
  [][(fuel'.saves < fuel.saves /\ title_entry = <<>>)
      => /\ SavedRow'.content = content_text
         /\ SavedRow'.title = Slice(FirstLine(content_text), TitleMax)]_vars

\* C9 amended: a save with an empty or blank title stores the buffer without
\* its leading and trailing whitespace as content, and the first line of
\* that content, cut to 60 characters, as title.
C9_SavesStripped ==
  [][(fuel'.saves < fuel.saves /\ Strip(title_entry) = <<>>)
      => /\ SavedRow'.content = Strip(content_text)
         /\ SavedRow'.title = Slice(FirstLine(Strip(content_text)), TitleMax)]_vars

\* C9 witness: "hello" and "world" were appended to an empty buffer and
\* saved with an empty title.
C9_Witness ==
  /\ Len(appended) = 2
  /\ content_text = hello \o <<SP>> \o world
  /\ current_note_id # None
  /\ SavedRow.title = hello \o <<SP>> \o world
  /\ SavedRow.content = hello \o <<SP>> \o world

\* C10: after one or more saves in an edit session the store holds exactly
\* one more note than before if the buffer was new, and as many if it was
\* loaded; every save went to the same id.
C10_OneNotePerEdit ==
  edit.saves >= 1 =>
    /\ Len(rows) = edit.base + (IF edit.new THEN 1 ELSE 0)
    /\ current_note_id = edit.id
    /\ Cardinality({i \in DOMAIN rows : rows[i].id = edit.id}) = 1

\* C10 witness: two saves of a new buffer added one note.
C10_Witness ==
  /\ edit.new
  /\ edit.saves = 2
  /\ Len(rows) = edit.base + 1

\* a direct caller of NoteDB wrote to table notes in this step
Called == dbop'.n # dbop.n

\* the ids of a sequence of notes
Ids(notes) == {notes[i].id : i \in DOMAIN notes}

\* C11: the note read by the id that add_note returned has the title, content
\* and tags that were inserted, on the read right after the insert and on
\* every later read, until update_note or delete_note is called for that id
C11_CreateThenGet ==
  [][/\ (Called /\ dbop'.op = "add") =>
          LET got == get_note_by_id(rows', dbop'.id) IN
          /\ Len(got) = 1
          /\ got[1].title = dbop'.title
          /\ got[1].content = dbop'.content
          /\ got[1].tags = dbop'.tags
     /\ \A i \in DOMAIN rows :
          \/ Called /\ dbop'.op \in {"update", "delete"} /\ dbop'.id = rows[i].id
          \/ LET got == get_note_by_id(rows', rows[i].id) IN
             /\ Len(got) = 1
             /\ got[1].title = rows[i].title
             /\ got[1].content = rows[i].content
             /\ got[1].tags = rows[i].tags]_vars

\* a note was added, then another note was updated, and the added note is
\* still read with tags other than its content
C11_Witness ==
  /\ seq >= 2
  /\ dbop.op = "update"
  /\ dbop.id # seq
  /\ get_note_by_id(rows, seq) # <<>>
  /\ get_note_by_id(rows, seq)[1].tags # get_note_by_id(rows, seq)[1].content

\* keyword occurs in text, letters compared without regard to case
Occurs(keyword, text) ==
  \E start \in 0..(Len(text) - Len(keyword)) :
    \A j \in 1..Len(keyword) : Lower(text[start + j]) = Lower(keyword[j])

\* C12: search_notes(k) returns exactly the notes of get_all_notes() in which
\* k occurs as a substring of the title, the content or the tags, in the same
\* relative order, also for keywords that contain "%" or "_"
C12_SearchIsSubstring ==
  \A k \in Keywords :
    db_search_notes(rows, k) =
      SelectSeq(get_all_notes(rows), LAMBDA r :
        Occurs(k, r.title) \/ Occurs(k, r.content) \/ Occurs(k, r.tags))

\* C13: search_notes("") and get_all_notes() return the same notes in the same
\* order
C13_EmptySearchIsListAll == db_search_notes(rows, <<>>) = get_all_notes(rows)

\* the store holds a note whose three texts are empty and notes of two
\* different seconds
C13_Witness ==
  /\ \E i \in DOMAIN rows :
       rows[i].title = <<>> /\ rows[i].content = <<>> /\ rows[i].tags = <<>>
  /\ \E i, j \in DOMAIN rows : rows[i].created_at < rows[j].created_at

\* C14: get_all_notes() returns the notes by created_at descending, and notes
\* of the same second with the higher id first
C14_NewestFirst ==
  LET all == get_all_notes(rows) IN
  \A i, j \in DOMAIN all :
    i < j => \/ all[i].created_at > all[j].created_at
             \/ all[i].created_at = all[j].created_at /\ all[i].id > all[j].id

\* C15: after delete_note(id) no read by id, get_all_notes() or search_notes()
\* returns the note with that id, then or later; delete_note of an id that
\* has no row leaves the table unchanged
C15_DeleteRemoves ==
  [][/\ (Called /\ dbop'.op = "delete") =>
          /\ get_note_by_id(rows', dbop'.id) = <<>>
          /\ dbop'.id \notin Ids(get_all_notes(rows'))
          /\ \A k \in Keywords : dbop'.id \notin Ids(db_search_notes(rows', k))
          /\ (dbop'.id \notin Ids(rows) => rows' = rows /\ seq' = seq)
     /\ \A id \in (1..seq) \ Ids(rows) :
          /\ get_note_by_id(rows', id) = <<>>
          /\ id \notin Ids(get_all_notes(rows'))
          /\ \A k \in Keywords : id \notin Ids(db_search_notes(rows', k))]_vars

\* a note was deleted while another stayed, and a note was added afterwards
C15_Witness ==
  /\ dbop.op = "add"
  /\ Len(rows) >= 2
  /\ \E id \in 1..seq : id \notin Ids(rows)

\* C16: update_note(id, ...) changes the title, content and tags of the note
\* with that id and nothing else: ids, created_at and the other notes stay,
\* and the table is unchanged when no note has that id
C16_UpdateOnlyFields ==
  [][(Called /\ dbop'.op = "update") =>
       /\ seq' = seq
       /\ Len(rows') = Len(rows)
       /\ \A i \in DOMAIN rows :
            /\ rows'[i].id = rows[i].id
            /\ rows'[i].created_at = rows[i].created_at
            /\ IF rows[i].id = dbop'.id
               THEN /\ rows'[i].title = dbop'.title
                    /\ rows'[i].content = dbop'.content
                    /\ rows'[i].tags = dbop'.tags
               ELSE rows'[i] = rows[i]]_vars

\* a note was updated next to a note with another title
C16_Witness ==
  /\ dbop.op = "update"
  /\ \E i, j \in DOMAIN rows :
       /\ rows[i].id = dbop.id
       /\ rows[i].title = dbop.title
       /\ rows[j].title # dbop.title

\* C17 as claimed: _append_text(text) on buffer b leaves b, a single space and
\* text when b is not empty, also when b is only whitespace or ends in a
\* newline, and exactly text when b is empty
C17_SpaceUnlessEmpty ==
  [][Len(appended') = Len(appended) + 1 =>
       content_text' =
         IF content_text # <<>>
         THEN content_text \o <<" ">> \o Last(appended').text
         ELSE Last(appended').text]_vars

\* C17 amended: _append_text(text) on buffer b leaves b, a single space and
\* text when b holds a character that is not whitespace, also when b ends in
\* a newline; it leaves b directly followed by text when b is empty or only
\* whitespace
C17_SpaceUnlessBlank ==
  [][Len(appended') = Len(appended) + 1 =>
       content_text' =
         IF \E i \in DOMAIN content_text : ~IsSpace(content_text[i])
         THEN content_text \o <<" ">> \o Last(appended').text
         ELSE content_text \o Last(appended').text]_vars

\* a fragment was appended to a typed buffer of whitespace only
C17_Witness ==
  /\ Len(appended) = 1
  /\ content_text = blank \o appended[1].text

\* the segments one stopped recording can capture
LiveSegs == Sessions \X (1..LiveSegments)

\* C18: while the main loop runs, every segment whose transcription gave a
\* text to append is eventually appended, also when the recording is stopped
\* in the meantime, and no segment is appended twice
C18_AppendedOnce ==
  /\ \A seg \in LiveSegs :
       (seg \in DOMAIN outcome /\ outcome[seg] \in {"text", "error"})
         ~> (\E i \in DOMAIN appended : appended[i].seg = seg)
  /\ [](\A i, j \in DOMAIN appended :
          appended[i].seg = appended[j].seg => i = j)

\* the recording was stopped with a transcription in flight, and its fragment
\* was appended afterwards as the last of two
C18_Witness ==
  /\ ~listening
  /\ afterQueue = <<>>
  /\ Len(appended) = 2
  /\ appended[2].stopped

\* C19: after any sequence of save, select, new, delete and search the
\* current note id is None or the id of a note in the store
C19_CurrentNoteExists ==
  current_note_id = None \/ get_note_by_id(rows, current_note_id) # <<>>

\* a note was deleted (ids are not reused, so the store holds fewer notes than
\* ids were given out), and the editor then shows another note
C19_Witness ==
  /\ Len(rows) < seq
  /\ current_note_id # None

\* C20: a save with a buffer that is empty or only whitespace changes neither
\* the store nor the current note id nor the buffer, for a new note and for
\* an existing one
C20_BlankSaveRejected ==
  [][((\A i \in DOMAIN content_text : IsSpace(content_text[i])) /\ save_note) =>
       /\ rows' = rows
       /\ seq' = seq
       /\ current_note_id' = current_note_id
       /\ content_text' = content_text]_vars

\* a save of an existing note was rejected because its buffer held only
\* whitespace, and the stored note kept its content
C20_Witness ==
  /\ edit.rejected
  /\ current_note_id # None
  /\ content_text = blank
  /\ get_note_by_id(rows, current_note_id)[1].content # <<>>

====
